---- MODULE Spec2Model ----
(***************************************************************************)
(* DevonRoutes: the three operational scripts import_osm.py,               *)
(* setup_routing.py and test_routing.py, run one after another against one *)
(* database and one working directory.                                     *)
(*                                                                         *)
(* The state is the environment the scripts act on (the DATABASE_URL of    *)
(* the run, the cached file devon-latest.osm.pbf, the database: installed  *)
(* extensions, tables, primary keys, indexes) and the running script's     *)
(* position and observable effects (exit status, printed messages,         *)
(* connections opened, fetches, subprocesses, the statements attempted).   *)
(*                                                                         *)
(* PostgreSQL, PostGIS, pgRouting, osm2pgsql and urllib are modelled by    *)
(* what the statements the scripts issue do; an error the environment can  *)
(* raise at any statement (lost connection, lock timeout, disk full) is a  *)
(* nondeterministic outcome drawn from a bounded budget.                   *)
(*                                                                         *)
(* Costs are kept in tenths (the multipliers 1.0 .. 10.0 are 10 .. 100),   *)
(* so that ST_Length(way) * multiplier stays an integer.                   *)
(***************************************************************************)
EXTENDS Integers, Sequences, FiniteSets, TLC

\* ------------------------------------------------------------------ bounds
\* rows of planet_osm_line in the extract served by the download site
MaxRows == 3
\* script launches in one behaviour
MaxRuns == 3
\* errors the environment injects in one behaviour
MaxFaults == 1
\* script launches in one behaviour that starts from a loaded database
DataRuns == 1

\* ------------------------------------------------------ nullable SQL values
\* SQL NULL is the empty tuple, a value v is the 1-tuple <<v>>.
Null == <<>>
Some(v) == <<v>>
IsNull(x) == x = <<>>
Val(x) == x[1]

Abs(n) == IF n < 0 THEN -n ELSE n
Min(a, b) == IF a < b THEN a ELSE b

SumSeq(s) ==
    LET RECURSIVE sum(_)
        sum(i) == IF i = 0 THEN 0 ELSE s[i] + sum(i - 1)
    IN sum(Len(s))

\* the SQL aggregate SUM over a column without NULLs: NULL over no rows
SqlSum(s) == IF s = <<>> THEN Null ELSE Some(SumSeq(s))

\* ------------------------------------------------ the script's environment
\* os.environ.get("DATABASE_URL"): unset (None), the empty string, or a URL
UrlUnset == Null
UrlEmpty == Some("")
UrlValid == Some("postgresql://devon")
Urls == {UrlUnset, UrlEmpty, UrlValid}

OSM_URL == "https://download.geofabrik.de/europe/united-kingdom/england/devon-latest.osm.pbf"
OSM_FILE == "devon-latest.osm.pbf"

Scripts == {"import_osm", "setup_routing", "test_routing"}

\* ----------------------------------------------------------- the OSM data
\* every highway value the cost CASE names, one it does not ("road"), and NULL
HighwayList ==
    << Null,
       Some("footway"), Some("path"), Some("pedestrian"), Some("steps"),
       Some("track"), Some("bridleway"), Some("cycleway"),
       Some("residential"), Some("living_street"), Some("service"),
       Some("unclassified"), Some("tertiary"), Some("tertiary_link"),
       Some("secondary"), Some("secondary_link"),
       Some("primary"), Some("primary_link"),
       Some("trunk"), Some("trunk_link"),
       Some("motorway"), Some("motorway_link"),
       Some("road") >>

HighwayAt(k) == HighwayList[((k - 1) % Len(HighwayList)) + 1]

\* The geometry of the extract: way i is a linestring between two of three
\* junctions (a triangle, then parallel ways), in metres of SRID 3857 along
\* one axis.  Way 2 starts one metre off the junction way 1 ends at, inside
\* the topology tolerance.
NodeX(k) == CASE k = 0 -> 0 [] k = 1 -> 4000 [] OTHER -> 9000

WorldWay(i) ==
    LET a == (i - 1) % 3
        b == i % 3
    IN [ s   |-> NodeX(a) + (IF i = 2 THEN 1 ELSE 0),
         e   |-> NodeX(b),
         len |-> Abs(NodeX(a) - NodeX(b)) + 100 * i ]

\* One extract: n rows; row i carries highway HighwayAt(h + 7 * (i - 1)), so
\* that every highway value occurs in every row position and the rows of one
\* extract fall into different cost classes; row w (if any) has way NULL.
Extract(n, h, w) ==
    [ i \in 1..n |->
        [ osm_id  |-> 100 + i,
          highway |-> HighwayAt(h + 7 * (i - 1)),
          name    |-> IF i = 1 THEN Some("High Street") ELSE Null,
          way     |-> IF i = w THEN Null ELSE Some(WorldWay(i)) ] ]

Extracts ==
    { Extract(n, h, w) : n \in 0..MaxRows, h \in 1..Len(HighwayList), w \in 0..MaxRows }

\* the extracts the download site serves while the scripts are followed from
\* an empty database: no row, one row or MaxRows rows, with and without a
\* NULL highway and a NULL way
Served ==
    { Extract(n, h, w) : n \in {0, 1, MaxRows}, h \in {1, 2}, w \in {0, 1} }

\* ------------------------------------------------------------ the database
ExtNames == {"postgis", "hstore", "pgrouting"}
PlanetTables ==
    {"planet_osm_point", "planet_osm_line", "planet_osm_polygon", "planet_osm_roads"}
RoutingTables == {"routing_edges", "routing_edges_vertices_pgr"}
TableNames == PlanetTables \cup RoutingTables

Absent == [exists |-> FALSE, rows |-> <<>>]
Table(rows) == [exists |-> TRUE, rows |-> rows]

EmptyDb ==
    [ ext     |-> {},
      tables  |-> [t \in TableNames |-> Absent],
      pkeys   |-> {},
      indexes |-> {} ]

\* the outcome of one statement: the psycopg2 error class ("" for none), the
\* database afterwards and the fetched rows
Ok(d, r) == [err |-> "", db |-> d, result |-> r]
Err(d, e) == [err |-> e, db |-> d, result |-> <<>>]

\* ------------------------------------------------- statements: extensions
\* CREATE EXTENSION e; without IF NOT EXISTS
CreateExtension(d, e) ==
    IF e \in d.ext THEN Err(d, "DuplicateObject")
    ELSE Ok([d EXCEPT !.ext = @ \cup {e}], <<>>)

\* CREATE EXTENSION IF NOT EXISTS e;
CreateExtensionIfNotExists(d, e) ==
    Ok([d EXCEPT !.ext = @ \cup {e}], <<>>)

\* SELECT PostGIS_Version(); / SELECT pgr_version();  the function exists only
\* with its extension installed
SelectVersion(d, e) ==
    IF e \in d.ext THEN Ok(d, <<e>>) ELSE Err(d, "UndefinedFunction")

\* ----------------------------------------------------- statements: tables
\* DROP TABLE IF EXISTS t CASCADE;  the table's key and indexes go with it
DropTableIfExists(d, t) ==
    Ok([d EXCEPT !.tables[t] = Absent,
                 !.pkeys = @ \ {t},
                 !.indexes = {i \in @ : i.table # t}], <<>>)

\* the SELECT of CREATE TABLE routing_edges AS: the rows of planet_osm_line
\* WHERE way IS NOT NULL, numbered by row_number() OVER ()
RoutingEdgesFrom(line) ==
    LET kept == SelectSeq(line, LAMBDA r : ~IsNull(r.way))
    IN [ i \in 1..Len(kept) |->
           [ edge_id      |-> i,
             osm_id       |-> kept[i].osm_id,
             highway      |-> kept[i].highway,
             name         |-> kept[i].name,
             way          |-> kept[i].way,
             source       |-> Null,
             target       |-> Null,
             cost         |-> Null,
             reverse_cost |-> Null ] ]

\* a variant that adds the routing columns to planet_osm_line itself and
\* routes on it
CreateRoutingEdges_in_place(d) ==
    IF ~d.tables["planet_osm_line"].exists THEN Err(d, "UndefinedTable")
    ELSE IF d.tables["routing_edges"].exists THEN Err(d, "DuplicateTable")
    ELSE Ok([d EXCEPT !.tables["planet_osm_line"] =
                          Table(RoutingEdgesFrom(d.tables["planet_osm_line"].rows)),
                      !.tables["routing_edges"] =
                          Table(RoutingEdgesFrom(d.tables["planet_osm_line"].rows))], <<>>)

\* CREATE TABLE routing_edges AS SELECT ... FROM planet_osm_line WHERE way IS NOT NULL;
CreateRoutingEdges(d) ==
    IF ~d.tables["planet_osm_line"].exists THEN Err(d, "UndefinedTable")
    ELSE IF d.tables["routing_edges"].exists THEN Err(d, "DuplicateTable")
    ELSE Ok([d EXCEPT !.tables["routing_edges"] =
                 Table(RoutingEdgesFrom(d.tables["planet_osm_line"].rows))], <<>>)

\* ALTER TABLE t ADD PRIMARY KEY (edge_id);
AddPrimaryKey(d, t) ==
    IF ~d.tables[t].exists THEN Err(d, "UndefinedTable")
    ELSE IF t \in d.pkeys THEN Err(d, "InvalidTableDefinition")
    ELSE Ok([d EXCEPT !.pkeys = @ \cup {t}], <<>>)

\* SELECT COUNT(*) FROM t;
SelectCount(d, t) ==
    IF ~d.tables[t].exists THEN Err(d, "UndefinedTable")
    ELSE Ok(d, << Len(d.tables[t].rows) >>)

\* CREATE INDEX IF NOT EXISTS name ON t ...;
CreateIndexIfNotExists(d, name, t) ==
    IF ~d.tables[t].exists THEN Err(d, "UndefinedTable")
    ELSE Ok([d EXCEPT !.indexes = @ \cup {[name |-> name, table |-> t]}], <<>>)

\* ------------------------------------------------- statements: the topology
\* the tolerance handed to pgr_createTopology, in metres
Tolerance == 1

\* _pgr_pointToId: the id of the nearest vertex within the tolerance of the
\* point, or of a new vertex at the point; the vertices afterwards
PointToId(verts, p) ==
    LET near == {j \in 1..Len(verts) : Abs(verts[j].the_geom - p) <= Tolerance}
        best == CHOOSE j \in near :
                    \A k \in near :
                        \/ Abs(verts[j].the_geom - p) < Abs(verts[k].the_geom - p)
                        \/ /\ Abs(verts[j].the_geom - p) = Abs(verts[k].the_geom - p)
                           /\ j <= k
    IN IF near # {}
       THEN [id |-> verts[best].id, verts |-> verts]
       ELSE [id |-> Len(verts) + 1,
             verts |-> Append(verts, [id |-> Len(verts) + 1, the_geom |-> p])]

\* the loop of pgr_createTopology over the edges still without a topology
\* (source IS NULL OR target IS NULL), in table order; budget is the number of
\* edges whose UPDATE succeeds before the function gives up (-1: all do)
RECURSIVE TopologyLoop(_, _, _, _)
TopologyLoop(rows, verts, i, budget) ==
    IF i > Len(rows) THEN [rows |-> rows, verts |-> verts, status |-> "OK"]
    ELSE IF ~(IsNull(rows[i].source) \/ IsNull(rows[i].target))
    THEN TopologyLoop(rows, verts, i + 1, budget)
    ELSE LET src == PointToId(verts, Val(rows[i].way).s)
             tgt == PointToId(src.verts, Val(rows[i].way).e)
         IN IF budget = 0
            THEN [rows |-> rows, verts |-> tgt.verts, status |-> "FAIL"]
            ELSE TopologyLoop(
                     [rows EXCEPT ![i].source = Some(src.id), ![i].target = Some(tgt.id)],
                     tgt.verts, i + 1, budget - 1)

\* SELECT pgr_createTopology('routing_edges', 1.0, 'way', 'edge_id');
\* The function reports its own failures by returning 'FAIL'; it keeps an
\* existing vertices table (clean := false) and creates a missing one.
pgr_createTopology(d, budget) ==
    IF "pgrouting" \notin d.ext THEN Err(d, "UndefinedFunction")
    ELSE IF ~d.tables["routing_edges"].exists THEN Ok(d, <<"FAIL">>)
    ELSE LET done == TopologyLoop(d.tables["routing_edges"].rows,
                                  d.tables["routing_edges_vertices_pgr"].rows, 1, budget)
         IN Ok([d EXCEPT !.tables["routing_edges"] = Table(done.rows),
                         !.tables["routing_edges_vertices_pgr"] = Table(done.verts)],
               << done.status >>)

\* --------------------------------------------------- statements: the costs
ST_Length(way) == Val(way).len

\* a variant whose ELSE branch is 1.0 instead of 1.5
CostMultiplier_else_1_0(highway) ==
    CASE highway \in {Some("footway"), Some("path"), Some("pedestrian"), Some("steps")} -> 10
      [] highway \in {Some("track"), Some("bridleway")} -> 11
      [] highway \in {Some("cycleway")} -> 12
      [] highway \in {Some("residential"), Some("living_street"), Some("service")} -> 13
      [] highway \in {Some("unclassified"), Some("tertiary"), Some("tertiary_link")} -> 14
      [] highway \in {Some("secondary"), Some("secondary_link")} -> 15
      [] highway \in {Some("primary"), Some("primary_link")} -> 18
      [] highway \in {Some("trunk"), Some("trunk_link")} -> 25
      [] highway \in {Some("motorway"), Some("motorway_link")} -> 100
      [] OTHER -> 10

\* a variant that closes motorways to walkers the pgRouting way, with a
\* negative cost
CostMultiplier_motorway_closed(highway) ==
    CASE highway \in {Some("footway"), Some("path"), Some("pedestrian"), Some("steps")} -> 10
      [] highway \in {Some("track"), Some("bridleway")} -> 11
      [] highway \in {Some("cycleway")} -> 12
      [] highway \in {Some("residential"), Some("living_street"), Some("service")} -> 13
      [] highway \in {Some("unclassified"), Some("tertiary"), Some("tertiary_link")} -> 14
      [] highway \in {Some("secondary"), Some("secondary_link")} -> 15
      [] highway \in {Some("primary"), Some("primary_link")} -> 18
      [] highway \in {Some("trunk"), Some("trunk_link")} -> 25
      [] highway \in {Some("motorway"), Some("motorway_link")} -> -10
      [] OTHER -> 15

\* the CASE expression of the cost UPDATE, in tenths
CostMultiplier(highway) ==
    CASE highway \in {Some("footway"), Some("path"), Some("pedestrian"), Some("steps")} -> 10
      [] highway \in {Some("track"), Some("bridleway")} -> 11
      [] highway \in {Some("cycleway")} -> 12
      [] highway \in {Some("residential"), Some("living_street"), Some("service")} -> 13
      [] highway \in {Some("unclassified"), Some("tertiary"), Some("tertiary_link")} -> 14
      [] highway \in {Some("secondary"), Some("secondary_link")} -> 15
      [] highway \in {Some("primary"), Some("primary_link")} -> 18
      [] highway \in {Some("trunk"), Some("trunk_link")} -> 25
      [] highway \in {Some("motorway"), Some("motorway_link")} -> 100
      [] OTHER -> 15

\* UPDATE routing_edges SET cost = ST_Length(way) * CASE ... END
\* WHERE highway IS NOT NULL AND source IS NOT NULL;
UpdateCost(d) ==
    IF ~d.tables["routing_edges"].exists THEN Err(d, "UndefinedTable")
    ELSE LET rows == d.tables["routing_edges"].rows
         IN Ok([d EXCEPT !.tables["routing_edges"].rows =
                  [ i \in 1..Len(rows) |->
                      IF ~IsNull(rows[i].highway) /\ ~IsNull(rows[i].source)
                      THEN [rows[i] EXCEPT
                              !.cost = Some(ST_Length(rows[i].way) * CostMultiplier(rows[i].highway))]
                      ELSE rows[i] ]], <<>>)

\* a variant that sets reverse_cost = ST_Length(way), without the multiplier
UpdateReverseCost_unweighted(d) ==
    IF ~d.tables["routing_edges"].exists THEN Err(d, "UndefinedTable")
    ELSE LET rows == d.tables["routing_edges"].rows
         IN Ok([d EXCEPT !.tables["routing_edges"].rows =
                  [ i \in 1..Len(rows) |->
                      IF ~IsNull(rows[i].cost)
                      THEN [rows[i] EXCEPT !.reverse_cost = Some(ST_Length(rows[i].way) * 10)]
                      ELSE rows[i] ]], <<>>)

\* UPDATE routing_edges SET reverse_cost = cost WHERE cost IS NOT NULL;
UpdateReverseCost(d) ==
    IF ~d.tables["routing_edges"].exists THEN Err(d, "UndefinedTable")
    ELSE LET rows == d.tables["routing_edges"].rows
         IN Ok([d EXCEPT !.tables["routing_edges"].rows =
                  [ i \in 1..Len(rows) |->
                      IF ~IsNull(rows[i].cost)
                      THEN [rows[i] EXCEPT !.reverse_cost = rows[i].cost]
                      ELSE rows[i] ]], <<>>)

\* SELECT COUNT(*), COUNT(source), COUNT(cost) FROM routing_edges;
SelectSummary(d) ==
    IF ~d.tables["routing_edges"].exists THEN Err(d, "UndefinedTable")
    ELSE LET rows == d.tables["routing_edges"].rows
         IN Ok(d, << Len(rows),
                     Len(SelectSeq(rows, LAMBDA r : ~IsNull(r.source))),
                     Len(SelectSeq(rows, LAMBDA r : ~IsNull(r.cost))) >>)

\* SELECT highway, COUNT(*) ... WHERE highway IS NOT NULL AND source IS NOT NULL
\* GROUP BY highway ORDER BY count DESC LIMIT 10;  (the groups, as a count)
SelectHighwayStats(d) ==
    IF ~d.tables["routing_edges"].exists THEN Err(d, "UndefinedTable")
    ELSE LET rows == d.tables["routing_edges"].rows
             groups == { rows[i].highway : i \in
                           {j \in 1..Len(rows) :
                               ~IsNull(rows[j].highway) /\ ~IsNull(rows[j].source)} }
         IN Ok(d, << Min(10, Cardinality(groups)) >>)

\* ---------------------------------------------- statements: test_routing
\* pgr_dijkstra(<edges WHERE cost IS NOT NULL>, s, t, directed := false).
\* An edge can be walked either way at cost (if >= 0) and at reverse_cost (if
\* >= 0); a negative value means "no edge"; a NULL in a supplied column is an
\* error.  The result is one row per node of a cheapest route: seq, node, the
\* edge leaving it (-1 at the end), that edge's cost and the cost so far.
EdgeWeights(r) == {c \in {Val(r.cost), Val(r.reverse_cost)} : c >= 0}

EdgeWeight(r) == CHOOSE c \in EdgeWeights(r) : \A o \in EdgeWeights(r) : c <= o

OtherEnd(r, node) == IF Val(r.source) = node THEN Val(r.target) ELSE Val(r.source)

\* the walks from s over distinct usable edges, by edge index, with the node reached
RECURSIVE Walks(_, _, _)
Walks(rows, s, k) ==
    IF k = 0 THEN {[path |-> <<>>, node |-> s]}
    ELSE LET prev == Walks(rows, s, k - 1)
             usable == {i \in 1..Len(rows) :
                           ~IsNull(rows[i].cost) /\ EdgeWeights(rows[i]) # {}}
             steps == {pi \in prev \X usable :
                          /\ \A j \in 1..Len(pi[1].path) : pi[1].path[j] # pi[2]
                          /\ \/ Val(rows[pi[2]].source) = pi[1].node
                             \/ Val(rows[pi[2]].target) = pi[1].node}
         IN prev \cup {[path |-> Append(pi[1].path, pi[2]),
                        node |-> OtherEnd(rows[pi[2]], pi[1].node)] : pi \in steps}

PathCost(rows, path) == SumSeq([j \in 1..Len(path) |-> EdgeWeight(rows[path[j]])])

\* the node a walk stands at after its first j edges
RECURSIVE NodeAfter(_, _, _, _)
NodeAfter(rows, s, path, j) ==
    IF j = 0 THEN s ELSE OtherEnd(rows[path[j]], NodeAfter(rows, s, path, j - 1))

RouteRows(rows, s, path) ==
    [ j \in 1..(Len(path) + 1) |->
        [ seq      |-> j,
          node     |-> NodeAfter(rows, s, path, j - 1),
          edge     |-> IF j <= Len(path) THEN rows[path[j]].edge_id ELSE -1,
          cost     |-> IF j <= Len(path) THEN EdgeWeight(rows[path[j]]) ELSE 0,
          agg_cost |-> PathCost(rows, SubSeq(path, 1, j - 1)) ] ]

\* every result pgr_dijkstra may return for (s, t): the rows of a cheapest
\* route, or no row when t cannot be reached
DijkstraRoutes(rows, s, t) ==
    LET reach == {w \in Walks(rows, s, Len(rows)) : w.node = t /\ w.path # <<>>}
        best == {w \in reach : \A o \in reach : PathCost(rows, w.path) <= PathCost(rows, o.path)}
    IN IF reach = {} THEN { <<>> }
       ELSE {RouteRows(rows, s, w.path) : w \in best}

\* the errors of the pgr_dijkstra call itself
pgr_dijkstra(d) ==
    IF "pgrouting" \notin d.ext THEN Err(d, "UndefinedFunction")
    ELSE IF ~d.tables["routing_edges"].exists THEN Err(d, "UndefinedTable")
    ELSE IF \E i \in 1..Len(d.tables["routing_edges"].rows) :
                /\ ~IsNull(d.tables["routing_edges"].rows[i].cost)
                /\ IsNull(d.tables["routing_edges"].rows[i].reverse_cost)
    THEN Err(d, "InternalError")
    ELSE Ok(d, <<>>)

\* LIMIT n
Limit(rows, n) == SubSeq(rows, 1, Min(n, Len(rows)))

\* the vertex pairs of the long-route query: a.id < b.id and a straight-line
\* distance strictly between 5000 and 10000
LongRoutePairs(verts) ==
    { <<verts[a].id, verts[b].id>> : <<a, b>> \in
        { ab \in (1..Len(verts)) \X (1..Len(verts)) :
            /\ verts[ab[1]].id < verts[ab[2]].id
            /\ Abs(verts[ab[1]].the_geom - verts[ab[2]].the_geom) > 5000
            /\ Abs(verts[ab[1]].the_geom - verts[ab[2]].the_geom) < 10000 } }

\* SELECT COUNT(*), SUM(CASE ...), SUM(ST_Length(way))/1000 FROM routing_edges
\* WHERE highway IS NOT NULL;  both sums are NULL over no rows.  total_km is a
\* double precision quotient, kept here exactly, in thousandths of a km: the
\* sum of the lengths in metres, with no rounding
SelectNetworkStats(d) ==
    IF ~d.tables["routing_edges"].exists THEN Err(d, "UndefinedTable")
    ELSE LET hw == SelectSeq(d.tables["routing_edges"].rows, LAMBDA r : ~IsNull(r.highway))
         IN Ok(d, << Some(Len(hw)),
                     IF Len(hw) = 0 THEN Null
                     ELSE Some(Len(SelectSeq(hw, LAMBDA r :
                                   ~IsNull(r.source) /\ ~IsNull(r.target)))),
                     SqlSum([i \in 1..Len(hw) |-> ST_Length(hw[i].way)]) >>)

\* ------------------------------------------------------------ the scripts
\* A script is its main(): get_database_url, then a fixed list of external
\* steps.  op is how the step is issued, label the statement or call.
Instr(op, label) == [op |-> op, label |-> label]

\* import_osm.py: download_osm_data, enable_postgis, import_osm_data, verify_import
ImportProgram ==
    << Instr("download", "download_osm_data"),
       Instr("connect", "enable_postgis: psycopg2.connect"),
       Instr("cursor_execute", "CREATE EXTENSION IF NOT EXISTS postgis"),
       Instr("cursor_execute", "CREATE EXTENSION IF NOT EXISTS hstore"),
       Instr("cursor_execute", "SELECT PostGIS_Version()"),
       Instr("close", "enable_postgis: conn.close"),
       Instr("subprocess", "osm2pgsql --create --slim"),
       Instr("connect", "verify_import: psycopg2.connect"),
       Instr("cursor_execute", "SELECT COUNT(*) FROM planet_osm_point"),
       Instr("cursor_execute", "SELECT COUNT(*) FROM planet_osm_line"),
       Instr("cursor_execute", "SELECT COUNT(*) FROM planet_osm_polygon"),
       Instr("cursor_execute", "SELECT COUNT(*) FROM planet_osm_roads"),
       Instr("close", "verify_import: conn.close"),
       Instr("print", "Import completed successfully!") >>

\* setup_routing.py: steps 1 to 6, then the summary
SetupProgram ==
    << Instr("connect", "psycopg2.connect"),
       Instr("execute_sql", "CREATE EXTENSION IF NOT EXISTS pgrouting"),
       Instr("cursor_execute", "SELECT pgr_version()"),
       Instr("execute_sql", "DROP TABLE IF EXISTS routing_edges_vertices_pgr CASCADE"),
       Instr("execute_sql", "DROP TABLE IF EXISTS routing_edges CASCADE"),
       Instr("execute_sql", "CREATE TABLE routing_edges AS"),
       Instr("execute_sql", "ALTER TABLE routing_edges ADD PRIMARY KEY (edge_id)"),
       Instr("cursor_execute", "SELECT COUNT(*) FROM routing_edges"),
       Instr("execute_sql", "CREATE INDEX IF NOT EXISTS routing_edges_way_idx"),
       Instr("topology", "SELECT pgr_createTopology"),
       Instr("cursor_execute", "SELECT COUNT(*) FROM routing_edges_vertices_pgr"),
       Instr("execute_sql", "CREATE INDEX IF NOT EXISTS routing_edges_source_idx"),
       Instr("execute_sql", "CREATE INDEX IF NOT EXISTS routing_edges_target_idx"),
       Instr("execute_sql", "UPDATE routing_edges SET cost"),
       Instr("execute_sql", "UPDATE routing_edges SET reverse_cost"),
       Instr("print", "Routing Setup Complete!"),
       Instr("cursor_execute", "SELECT summary FROM routing_edges"),
       Instr("cursor_execute", "SELECT highway, COUNT(*) FROM routing_edges"),
       Instr("close", "conn.close") >>

\* test_routing.py: [1] sample vertices, [2] Dijkstra, [3] longer route, [4] statistics
TestProgram ==
    << Instr("connect", "psycopg2.connect"),
       Instr("find_vertices", "SELECT id FROM routing_edges_vertices_pgr LIMIT 5"),
       Instr("dijkstra", "SELECT FROM pgr_dijkstra LIMIT 20"),
       Instr("long_route", "SELECT start_id, end_id ORDER BY random() LIMIT 1"),
       Instr("long_dijkstra", "SELECT COUNT(*), SUM(cost) FROM pgr_dijkstra"),
       Instr("network_stats", "SELECT network statistics FROM routing_edges"),
       Instr("close", "conn.close"),
       Instr("print", "Routing test complete!") >>

Program(s) ==
    CASE s = "import_osm" -> ImportProgram
      [] s = "setup_routing" -> SetupProgram
      [] s = "test_routing" -> TestProgram
      [] OTHER -> <<>>

\* what each statement does to the database
Sql(d, label) ==
    CASE label = "CREATE EXTENSION IF NOT EXISTS postgis" ->
            CreateExtensionIfNotExists(d, "postgis")
      [] label = "CREATE EXTENSION IF NOT EXISTS hstore" ->
            CreateExtensionIfNotExists(d, "hstore")
      [] label = "CREATE EXTENSION IF NOT EXISTS pgrouting" ->
            CreateExtensionIfNotExists(d, "pgrouting")
      [] label = "SELECT PostGIS_Version()" -> SelectVersion(d, "postgis")
      [] label = "SELECT pgr_version()" -> SelectVersion(d, "pgrouting")
      [] label = "SELECT COUNT(*) FROM planet_osm_point" -> SelectCount(d, "planet_osm_point")
      [] label = "SELECT COUNT(*) FROM planet_osm_line" -> SelectCount(d, "planet_osm_line")
      [] label = "SELECT COUNT(*) FROM planet_osm_polygon" -> SelectCount(d, "planet_osm_polygon")
      [] label = "SELECT COUNT(*) FROM planet_osm_roads" -> SelectCount(d, "planet_osm_roads")
      [] label = "DROP TABLE IF EXISTS routing_edges_vertices_pgr CASCADE" ->
            DropTableIfExists(d, "routing_edges_vertices_pgr")
      [] label = "DROP TABLE IF EXISTS routing_edges CASCADE" ->
            DropTableIfExists(d, "routing_edges")
      [] label = "CREATE TABLE routing_edges AS" -> CreateRoutingEdges(d)
      [] label = "ALTER TABLE routing_edges ADD PRIMARY KEY (edge_id)" ->
            AddPrimaryKey(d, "routing_edges")
      [] label = "SELECT COUNT(*) FROM routing_edges" -> SelectCount(d, "routing_edges")
      [] label = "CREATE INDEX IF NOT EXISTS routing_edges_way_idx" ->
            CreateIndexIfNotExists(d, "routing_edges_way_idx", "routing_edges")
      [] label = "SELECT COUNT(*) FROM routing_edges_vertices_pgr" ->
            SelectCount(d, "routing_edges_vertices_pgr")
      [] label = "CREATE INDEX IF NOT EXISTS routing_edges_source_idx" ->
            CreateIndexIfNotExists(d, "routing_edges_source_idx", "routing_edges")
      [] label = "CREATE INDEX IF NOT EXISTS routing_edges_target_idx" ->
            CreateIndexIfNotExists(d, "routing_edges_target_idx", "routing_edges")
      [] label = "UPDATE routing_edges SET cost" -> UpdateCost(d)
      [] label = "UPDATE routing_edges SET reverse_cost" -> UpdateReverseCost(d)
      [] label = "SELECT summary FROM routing_edges" -> SelectSummary(d)
      [] label = "SELECT highway, COUNT(*) FROM routing_edges" -> SelectHighwayStats(d)
      [] label = "SELECT id FROM routing_edges_vertices_pgr LIMIT 5" ->
            SelectCount(d, "routing_edges_vertices_pgr")
      [] label = "SELECT start_id, end_id ORDER BY random() LIMIT 1" ->
            SelectCount(d, "routing_edges_vertices_pgr")
      [] label = "SELECT network statistics FROM routing_edges" -> SelectNetworkStats(d)
      [] label = "SELECT FROM pgr_dijkstra LIMIT 20" -> pgr_dijkstra(d)
      [] label = "SELECT pgr_createTopology" -> pgr_createTopology(d, -1)
      [] label = "SELECT COUNT(*), SUM(cost) FROM pgr_dijkstra" -> pgr_dijkstra(d)
      [] OTHER -> Err(d, "ProgrammingError")

\* a statement under the environment: lost connections and the like raise
\* OperationalError and change nothing
Run(d, label, fault) ==
    IF fault THEN Err(d, "OperationalError") ELSE Sql(d, label)

\* a variant that tests "database_url is None" instead of "not database_url"
get_database_url_is_none(u) == ~IsNull(u)

\* get_database_url: os.environ.get("DATABASE_URL") is usable iff "not
\* database_url" is false, that is iff it is set and not empty
get_database_url(u) == ~(IsNull(u) \/ u = Some(""))

\* a variant of download_osm_data without the os.path.exists test
os_path_exists_unchecked(f) == FALSE

\* os.path.exists(OSM_FILE)
os_path_exists(f) == f.state # "absent"

\* execute_sql: the statement is committed, or on psycopg2.Error rolled back
\* and reported, and the caller goes on.  When the statement failed because
\* the connection is lost, conn.rollback() in the except block raises too
\* (InterfaceError) and nothing catches that: no error line is printed and
\* the process ends with a traceback
execute_sql(d, label, fault, lost) ==
    LET r == Run(d, label, fault)
    IN IF r.err = ""
       THEN [ok |-> TRUE, db |-> r.db, err |-> "", goes_on |-> TRUE]
       ELSE [ok |-> FALSE, db |-> d, err |-> r.err, goes_on |-> ~(fault /\ lost)]

\* query_sql and every bare cursor.execute: nothing catches psycopg2.Error, so
\* an error ends the process with a traceback
query_sql(d, label, fault) ==
    LET r == Run(d, label, fault)
    IN IF r.err = ""
       THEN [ok |-> TRUE, db |-> r.db, err |-> "", goes_on |-> TRUE, result |-> r.result]
       ELSE [ok |-> FALSE, db |-> d, err |-> r.err, goes_on |-> FALSE, result |-> <<>>]

\* a variant that does not look at result.returncode
import_osm_data_unchecked(returncode) == TRUE

\* import_osm_data: a non-zero return code of osm2pgsql is fatal
import_osm_data(returncode) == returncode = 0

\* ---------------------------------------------------------------- state
VARIABLES
    db,          \* the database behind DATABASE_URL
    file,        \* devon-latest.osm.pbf in the working directory
    runs,        \* scripts launched so far
    faults,      \* environment errors injected so far
    fetchLog,    \* every urlretrieve call so far: its run, URL and outcome
    script,      \* the script of the current run
    pc,          \* "idle", "main" (before get_database_url), "run", "exit"
    ip,          \* the step of Program(script) to issue next
    url,         \* DATABASE_URL of the current run
    exit,        \* the exit status of the current run, NULL while it runs
    printed,     \* what the current run has printed: <<kind, text>>
    trace,       \* the steps the current run has attempted, with their errors
    conn,        \* the run's psycopg2 connection: "none", "open", "closed"
    conns,       \* psycopg2.connect calls of the current run
    fetches,     \* urlretrieve calls of the current run
    subprocs,    \* subprocess.run calls of the current run
    sel,         \* test_routing: start_vertex, end_vertex, long_route, its result
    route,       \* test_routing: the rows fetched from the first pgr_dijkstra
    total_cost   \* test_routing: the printed "Total route cost"

vars ==
    << db, file, runs, faults, fetchLog, script, pc, ip, url, exit, printed,
       trace, conn, conns, fetches, subprocs, sel, route, total_cost >>

NoSel == [start |-> 0, end |-> 0, long |-> Null, long_result |-> Null]

Init ==
    /\ db = EmptyDb
    /\ file = [state |-> "absent", data |-> <<>>]
    /\ runs = 0
    /\ faults = 0
    /\ fetchLog = <<>>
    /\ script = "none"
    /\ pc = "idle"
    /\ ip = 0
    /\ url = Null
    /\ exit = Null
    /\ printed = {}
    /\ trace = <<>>
    /\ conn = "none"
    /\ conns = 0
    /\ fetches = 0
    /\ subprocs = 0
    /\ sel = NoSel
    /\ route = <<>>
    /\ total_cost = Null

\* ------------------------------------------------------- control helpers
Cur == Program(script)[ip]
At(op) == pc = "run" /\ ip \in 1..Len(Program(script)) /\ Cur.op = op

Faults == IF faults < MaxFaults THEN {FALSE, TRUE} ELSE {FALSE}
Spend(f) == faults' = IF f THEN faults + 1 ELSE faults

Logged(err) == trace' = Append(trace, [step |-> Cur.label, err |-> err])
Says(kind, text) == printed' = printed \cup {<<kind, text>>}

\* a variant that issues a failed statement again
NextIp_retry(i, ok) == IF ok THEN i + 1 ELSE i

\* main() is straight-line code: after step i comes step i + 1, whether or not
\* step i succeeded
NextIp(i, ok) == i + 1

\* on to the next step; main() returning ends the process with status 0
Proceed(ok) ==
    IF NextIp(ip, ok) > Len(Program(script))
    THEN pc' = "exit" /\ ip' = ip /\ exit' = Some(0)
    ELSE pc' = "run" /\ ip' = NextIp(ip, ok) /\ exit' = exit

Advance == Proceed(TRUE)

\* sys.exit(status), or main() returning early
Exit(status) == pc' = "exit" /\ ip' = ip /\ exit' = Some(status)

\* an exception nothing catches: the traceback is printed, the status is 1
Crash == Exit(1) /\ Says("traceback", Cur.label)

\* ---------------------------------------------------------------- actions
\* the user starts a script with some DATABASE_URL, once the last one has ended
Launch(s, u, max) ==
    /\ pc \in {"idle", "exit"}
    /\ runs < max
    /\ runs' = runs + 1
    /\ script' = s
    /\ url' = u
    /\ pc' = "main"
    /\ ip' = 0
    /\ exit' = Null
    /\ printed' = {}
    /\ trace' = <<>>
    /\ conn' = "none"
    /\ conns' = 0
    /\ fetches' = 0
    /\ subprocs' = 0
    /\ sel' = NoSel
    /\ route' = <<>>
    /\ total_cost' = Null
    /\ UNCHANGED <<db, file, faults, fetchLog>>

\* main() up to get_database_url()
GetDatabaseUrl ==
    /\ pc = "main"
    /\ IF get_database_url(url)
       THEN /\ pc' = "run" /\ ip' = 1 /\ exit' = exit
            /\ trace' = Append(trace, [step |-> "get_database_url", err |-> ""])
            /\ printed' = printed
       ELSE /\ Exit(1)
            /\ trace' = Append(trace, [step |-> "get_database_url", err |-> "SystemExit"])
            /\ Says("msg", "ERROR: DATABASE_URL environment variable not set")
    /\ UNCHANGED <<db, file, runs, faults, fetchLog, script, url, conn, conns,
                   fetches, subprocs, sel, route, total_cost>>

\* download_osm_data(): urlretrieve fails before it creates the file (URLError),
\* fails after it has written part of it (ContentTooShortError), or completes
DownloadOsmData ==
    /\ At("download")
    /\ IF os_path_exists(file)
       THEN /\ Says("msg", "OSM file already exists, skipping download.")
            /\ Logged("")
            /\ Advance
            /\ UNCHANGED <<file, fetches, fetchLog, faults>>
       ELSE \E outcome \in {"ok"} \cup (IF faults < MaxFaults
                                         THEN {"URLError", "ContentTooShortError"}
                                         ELSE {}) :
            /\ fetches' = fetches + 1
            /\ Spend(outcome # "ok")
            /\ CASE outcome = "ok" ->
                      /\ \E x \in Served : file' = [state |-> "complete", data |-> x]
                      /\ Says("msg", "Download complete!")
                      /\ Logged("")
                      /\ Advance
                 [] outcome = "URLError" ->
                      /\ file' = file
                      /\ Logged(outcome)
                      /\ Crash
                 [] OTHER ->
                      /\ file' = [state |-> "partial", data |-> <<>>]
                      /\ Logged(outcome)
                      /\ Crash
            /\ fetchLog' = Append(fetchLog, [run |-> runs, url |-> OSM_URL, into |-> OSM_FILE,
                                              outcome |-> outcome, wrote |-> file'])
    /\ UNCHANGED <<db, runs, script, url, conn, conns, subprocs, sel, route, total_cost>>

\* psycopg2.connect(database_url)
Connect ==
    /\ At("connect")
    /\ conns' = conns + 1
    /\ \E f \in Faults :
        /\ Spend(f)
        /\ IF f
           THEN conn' = conn /\ Logged("OperationalError") /\ Crash
           ELSE conn' = "open" /\ Logged("") /\ Advance /\ printed' = printed
    /\ UNCHANGED <<db, file, runs, fetchLog, script, url, fetches, subprocs,
                   sel, route, total_cost>>

\* conn.close()
Close ==
    /\ At("close")
    /\ conn' = "closed"
    /\ Logged("")
    /\ Advance
    /\ UNCHANGED <<db, file, runs, faults, fetchLog, script, url, printed, conns,
                   fetches, subprocs, sel, route, total_cost>>

\* the final print of a script or of a stage
PrintMsg ==
    /\ At("print")
    /\ Says("msg", Cur.label)
    /\ Advance
    /\ UNCHANGED <<db, file, runs, faults, fetchLog, script, url, trace, conn, conns,
                   fetches, subprocs, sel, route, total_cost>>

\* query_sql(conn, sql) of setup_routing and the bare cur.execute(sql) of
\* enable_postgis (autocommit) and verify_import
CursorExecute ==
    /\ At("cursor_execute")
    /\ \E f \in Faults :
        LET r == query_sql(db, Cur.label, f)
        IN /\ Spend(f)
           /\ db' = r.db
           /\ Logged(r.err)
           /\ IF r.goes_on THEN Advance /\ printed' = printed ELSE Crash
    /\ UNCHANGED <<file, runs, fetchLog, script, url, conn, conns, fetches,
                   subprocs, sel, route, total_cost>>

\* execute_sql(conn, sql, description) of setup_routing
ExecuteSqlStep ==
    /\ At("execute_sql")
    /\ \E f \in Faults, lost \in BOOLEAN :
        LET r == execute_sql(db, Cur.label, f, lost)
        IN /\ lost => f
           /\ Spend(f)
           /\ db' = r.db
           /\ Logged(r.err)
           /\ IF r.goes_on
              THEN Proceed(r.ok) /\ Says(IF r.ok THEN "complete" ELSE "error", Cur.label)
              ELSE Crash
    /\ UNCHANGED <<file, runs, fetchLog, script, url, conn, conns, fetches,
                   subprocs, sel, route, total_cost>>

\* step 4 of setup_routing: cur.execute(pgr_createTopology), fetchone, commit.
\* The environment may raise (budget -1 with a fault) or make the function
\* give up after `budget` edges and return 'FAIL'.
CreateTopology ==
    /\ At("topology")
    /\ \E f \in Faults, budget \in (-1)..(MaxRows - 1) :
        LET r == IF f /\ budget = -1 THEN Err(db, "OperationalError")
                 ELSE pgr_createTopology(db, budget)
        IN /\ ~f => budget = -1
           /\ (f /\ budget >= 0) => (r.err = "" /\ r.result = <<"FAIL">>)
           /\ Spend(f)
           /\ Logged(r.err)
           /\ IF r.err = ""
              THEN db' = r.db /\ Advance /\ Says("topology", r.result[1])
              ELSE db' = db /\ Crash
    /\ UNCHANGED <<file, runs, fetchLog, script, url, conn, conns, fetches,
                   subprocs, sel, route, total_cost>>

\* what subprocess.run(["osm2pgsql", ...]) may do.  When the executable is
\* not installed it raises FileNotFoundError (rc -1 here) before anything is
\* read or written, whatever the file is and whatever has failed before.
\* Otherwise osm2pgsql loads the file (return code 0), or fails with a
\* non-zero return code, the planet tables left as they were or already
\* dropped; a truncated file always fails
Osm2pgsqlOutcomes ==
    LET failures == { [rc |-> 1, planet |-> "kept", fault |-> FALSE],
                      [rc |-> 1, planet |-> "dropped", fault |-> FALSE] }
        missing  == { [rc |-> -1, planet |-> "kept", fault |-> FALSE] }
    IN IF file.state # "complete"
       THEN failures \cup missing
       ELSE { [rc |-> 0, planet |-> "loaded", fault |-> FALSE] }
            \cup missing
            \cup (IF faults < MaxFaults
                  THEN { [o EXCEPT !.fault = TRUE] : o \in failures }
                  ELSE {})

\* the planet_osm_* tables after osm2pgsql --create
Osm2pgsql(d, planet, data) ==
    CASE planet = "loaded" ->
            [d EXCEPT !.tables =
                [t \in TableNames |->
                    IF t = "planet_osm_line" THEN Table(data)
                    ELSE IF t \in PlanetTables THEN Table(<<>>)
                    ELSE @[t]],
                !.pkeys = @ \ PlanetTables,
                !.indexes = {i \in @ : i.table \notin PlanetTables}]
      [] planet = "dropped" ->
            [d EXCEPT !.tables =
                [t \in TableNames |-> IF t \in PlanetTables THEN Absent ELSE @[t]]]
      [] OTHER -> d

\* import_osm_data(database_url): subprocess.run(["osm2pgsql", ...]); rc -1
\* stands for subprocess.run raising FileNotFoundError
ImportOsmData ==
    /\ At("subprocess")
    /\ subprocs' = subprocs + 1
    /\ \E o \in Osm2pgsqlOutcomes :
        /\ Spend(o.fault)
        /\ db' = Osm2pgsql(db, o.planet, file.data)
        /\ Logged(CASE o.rc = -1 -> "FileNotFoundError"
                     [] o.rc = 0 -> ""
                     [] OTHER -> "returncode")
        /\ IF o.rc = -1
           THEN Crash
           ELSE IF import_osm_data(o.rc)
           THEN /\ Says("msg", "OSM data import complete!")
                /\ Advance
           ELSE /\ Says("msg", "ERROR: osm2pgsql import failed")
                /\ Exit(1)
    /\ UNCHANGED <<file, runs, fetchLog, script, url, conn, conns, fetches,
                   sel, route, total_cost>>

\* [1] of test_routing: up to five vertices in no stated order; the first is
\* the start, the last the end; with fewer than two, main() returns (the
\* connection is left open)
FindVertices ==
    /\ At("find_vertices")
    /\ \E f \in Faults :
        LET r == query_sql(db, Cur.label, f)
            verts == db.tables["routing_edges_vertices_pgr"].rows
        IN /\ Spend(f)
           /\ Logged(r.err)
           /\ IF ~r.goes_on
              THEN Crash /\ sel' = sel
              ELSE IF Len(verts) < 2
              THEN /\ Says("msg", "Not enough vertices for routing test")
                   /\ Exit(0)
                   /\ sel' = sel
              ELSE /\ \E a \in 1..Len(verts), b \in 1..Len(verts) :
                        /\ a # b
                        /\ sel' = [sel EXCEPT !.start = verts[a].id, !.end = verts[b].id]
                   /\ printed' = printed
                   /\ Advance
    /\ UNCHANGED <<db, file, runs, fetchLog, script, url, conn, conns, fetches,
                   subprocs, route, total_cost>>

\* [2] of test_routing: the first 20 rows of the route, and the total printed
\* from the last of them
Dijkstra ==
    /\ At("dijkstra")
    /\ \E f \in Faults :
        LET r == query_sql(db, Cur.label, f)
        IN /\ Spend(f)
           /\ Logged(r.err)
           /\ IF ~r.goes_on
              THEN Crash /\ UNCHANGED <<route, total_cost>>
              ELSE \E found \in DijkstraRoutes(db.tables["routing_edges"].rows,
                                               sel.start, sel.end) :
                    /\ route' = Limit(found, 20)
                    /\ total_cost' = IF route' # <<>>
                                     THEN Some(route'[Len(route')].agg_cost)
                                     ELSE Null
                    /\ Says("msg", IF route' # <<>> THEN "Total route cost"
                                   ELSE "No route found between these vertices")
                    /\ Advance
    /\ UNCHANGED <<db, file, runs, fetchLog, script, url, conn, conns, fetches,
                   subprocs, sel>>

\* [3] of test_routing, first query: one random pair of vertices 5 to 10 km
\* apart, or none; without a pair the second Dijkstra query is skipped
LongRoute ==
    /\ At("long_route")
    /\ \E f \in Faults :
        LET r == query_sql(db, Cur.label, f)
            pairs == LongRoutePairs(db.tables["routing_edges_vertices_pgr"].rows)
        IN /\ Spend(f)
           /\ Logged(r.err)
           /\ IF ~r.goes_on
              THEN Crash /\ sel' = sel
              ELSE IF pairs = {}
              THEN /\ sel' = [sel EXCEPT !.long = Null]
                   /\ pc' = "run" /\ ip' = ip + 2 /\ exit' = exit
                   /\ printed' = printed
              ELSE /\ \E p \in pairs : sel' = [sel EXCEPT !.long = Some(p)]
                   /\ printed' = printed
                   /\ Advance
    /\ UNCHANGED <<db, file, runs, fetchLog, script, url, conn, conns, fetches,
                   subprocs, route, total_cost>>

\* [3] of test_routing, second query: COUNT(*) and SUM(cost) of the long route
LongDijkstra ==
    /\ At("long_dijkstra")
    /\ \E f \in Faults :
        LET r == query_sql(db, Cur.label, f)
        IN /\ Spend(f)
           /\ Logged(r.err)
           /\ IF ~r.goes_on
              THEN Crash /\ sel' = sel
              ELSE \E found \in DijkstraRoutes(db.tables["routing_edges"].rows,
                                               Val(sel.long)[1], Val(sel.long)[2]) :
                    /\ sel' = [sel EXCEPT !.long_result =
                                 Some(<< Len(found),
                                         SqlSum([j \in 1..Len(found) |-> found[j].cost]) >>)]
                    /\ printed' = printed
                    /\ Advance
    /\ UNCHANGED <<db, file, runs, fetchLog, script, url, conn, conns, fetches,
                   subprocs, route, total_cost>>

\* [4] of test_routing: the statistics are formatted with "{:,}", which raises
\* TypeError on the NULL sums of an empty network
NetworkStats ==
    /\ At("network_stats")
    /\ \E f \in Faults :
        LET r == query_sql(db, Cur.label, f)
        IN /\ Spend(f)
           /\ IF ~r.goes_on
              THEN Logged(r.err) /\ Crash
              ELSE IF \E k \in 1..Len(r.result) : IsNull(r.result[k])
              THEN Logged("TypeError") /\ Crash
              ELSE Logged("") /\ Advance /\ printed' = printed
    /\ UNCHANGED <<db, file, runs, fetchLog, script, url, conn, conns, fetches,
                   subprocs, sel, route, total_cost>>

Next ==
    \/ \E s \in Scripts, u \in Urls : Launch(s, u, MaxRuns)
    \/ GetDatabaseUrl
    \/ DownloadOsmData
    \/ Connect
    \/ Close
    \/ PrintMsg
    \/ CursorExecute
    \/ ExecuteSqlStep
    \/ CreateTopology
    \/ ImportOsmData
    \/ FindVertices
    \/ Dijkstra
    \/ LongRoute
    \/ LongDijkstra
    \/ NetworkStats

Spec == Init /\ [][Next]_vars

\* ------------------------------------- the scripts over a loaded database
\* the database after a clean run of import_osm.py over extract x
ImportedDb(x) ==
    Osm2pgsql([EmptyDb EXCEPT !.ext = {"postgis", "hstore"}], "loaded", x)

\* the database after the statements of setup_routing.py, all succeeding
RECURSIVE AfterSetup(_, _)
AfterSetup(d, i) ==
    IF i > Len(SetupProgram) THEN d
    ELSE IF SetupProgram[i].op \in {"execute_sql", "cursor_execute", "topology"}
    THEN AfterSetup(Sql(d, SetupProgram[i].label).db, i + 1)
    ELSE AfterSetup(d, i + 1)

RoutedDb(x) == AfterSetup(ImportedDb(x), 1)

\* setup_routing.py and test_routing.py started on a database that import_osm.py
\* (and possibly setup_routing.py) has already been run on, over every extract
InitData ==
    /\ \E x \in Extracts :
          /\ db \in {ImportedDb(x), RoutedDb(x)}
          /\ file = [state |-> "complete", data |-> x]
    /\ runs = 0
    /\ faults = 0
    /\ fetchLog = <<>>
    /\ script = "none"
    /\ pc = "idle"
    /\ ip = 0
    /\ url = Null
    /\ exit = Null
    /\ printed = {}
    /\ trace = <<>>
    /\ conn = "none"
    /\ conns = 0
    /\ fetches = 0
    /\ subprocs = 0
    /\ sel = NoSel
    /\ route = <<>>
    /\ total_cost = Null

NextData ==
    \/ \E s \in {"setup_routing", "test_routing"} : Launch(s, UrlValid, DataRuns)
    \/ GetDatabaseUrl
    \/ Connect
    \/ Close
    \/ PrintMsg
    \/ CursorExecute
    \/ ExecuteSqlStep
    \/ CreateTopology
    \/ FindVertices
    \/ Dijkstra
    \/ LongRoute
    \/ LongDijkstra
    \/ NetworkStats

SpecData == InitData /\ [][NextData]_vars

\* ------------------------------------------------------------ type check
TypeOK ==
    /\ runs \in 0..(MaxRuns + DataRuns)
    /\ faults \in 0..MaxFaults
    /\ script \in Scripts \cup {"none"}
    /\ pc \in {"idle", "main", "run", "exit"}
    /\ url \in Urls
    /\ conn \in {"none", "open", "closed"}
    /\ file.state \in {"absent", "partial", "complete"}
    /\ db.ext \subseteq ExtNames

\* ================================================================ claims
Last(q) == q[Len(q)]
Steps == [i \in 1..Len(trace) |-> trace[i].step]
Attempted(label) == \E i \in 1..Len(trace) : trace[i].step = label
Succeeded(label) == \E i \in 1..Len(trace) : trace[i].step = label /\ trace[i].err = ""
Failed(label) == \E i \in 1..Len(trace) : trace[i].step = label /\ trace[i].err # ""
Edges == db.tables["routing_edges"].rows

\* C1: in each of the three scripts, an unset or empty DATABASE_URL makes the
\* run print the error and end with status 1 at get_database_url: no database
\* connection, no fetch, no subprocess, and no later step in that run.
C1_MissingUrlIsFatal ==
    (script \in Scripts /\ url \in {UrlUnset, UrlEmpty} /\ pc # "main") =>
        /\ pc = "exit"
        /\ exit = Some(1)
        /\ printed = {<<"msg", "ERROR: DATABASE_URL environment variable not set">>}
        /\ Steps = <<"get_database_url">>
        /\ conns = 0 /\ conn = "none"
        /\ fetches = 0
        /\ subprocs = 0

C1_Witness ==
    /\ script = "setup_routing" /\ url = UrlEmpty
    /\ pc = "exit" /\ exit = Some(1)
    /\ db.tables["planet_osm_line"].exists

\* C2, as claimed: every setup_routing run that got its connection ends after
\* "Routing Setup Complete!", with the connection closed, whatever database
\* errors its statements raised.  (Stated for runs in which the environment
\* injects no error: the statements' own errors are enough.)
C2_EveryDbErrorIsSkipped ==
    (script = "setup_routing" /\ pc = "exit" /\ faults = 0
        /\ Succeeded("psycopg2.connect")) =>
        /\ <<"msg", "Routing Setup Complete!">> \in printed
        /\ conn = "closed"
        /\ exit = Some(0)

\* C3: in import_osm, a non-zero return code of osm2pgsql ends the run with
\* the import error and status 1, verify_import is never entered and neither
\* success message is printed; and "Import completed successfully!" is printed
\* only after osm2pgsql returned 0 and verify_import finished.
VerifySteps ==
    { "verify_import: psycopg2.connect",
      "SELECT COUNT(*) FROM planet_osm_point", "SELECT COUNT(*) FROM planet_osm_line",
      "SELECT COUNT(*) FROM planet_osm_polygon", "SELECT COUNT(*) FROM planet_osm_roads",
      "verify_import: conn.close" }

C3_ImportFailureIsFatal ==
    script = "import_osm" =>
        /\ (Failed("osm2pgsql --create --slim") /\ Last(trace).err = "returncode") =>
                /\ pc = "exit" /\ exit = Some(1)
                /\ Last(trace).step = "osm2pgsql --create --slim"
                /\ <<"msg", "ERROR: osm2pgsql import failed">> \in printed
                /\ <<"msg", "OSM data import complete!">> \notin printed
                /\ <<"msg", "Import completed successfully!">> \notin printed
                /\ \A v \in VerifySteps : ~Attempted(v)
        /\ <<"msg", "Import completed successfully!">> \in printed =>
                /\ Succeeded("osm2pgsql --create --slim")
                /\ \A v \in VerifySteps : Succeeded(v)

C3_Witness ==
    /\ script = "import_osm"
    /\ Failed("osm2pgsql --create --slim")
    /\ Last(trace).err = "returncode"
    /\ file.state = "complete"

\* C4: once the cost step of setup_routing has succeeded, every routing_edges
\* row with highway and source NOT NULL has cost = ST_Length(way) * m(highway),
\* m as listed in the claim (in tenths), and every other row has cost NULL.
C4_m(h) ==
    IF h \in {"footway", "path", "pedestrian", "steps"} THEN 10
    ELSE IF h \in {"track", "bridleway"} THEN 11
    ELSE IF h = "cycleway" THEN 12
    ELSE IF h \in {"residential", "living_street", "service"} THEN 13
    ELSE IF h \in {"unclassified", "tertiary", "tertiary_link"} THEN 14
    ELSE IF h \in {"secondary", "secondary_link"} THEN 15
    ELSE IF h \in {"primary", "primary_link"} THEN 18
    ELSE IF h \in {"trunk", "trunk_link"} THEN 25
    ELSE IF h \in {"motorway", "motorway_link"} THEN 100
    ELSE 15

C4_CostPerHighway ==
    (script = "setup_routing" /\ Succeeded("UPDATE routing_edges SET cost")) =>
        \A i \in 1..Len(Edges) :
            IF ~IsNull(Edges[i].highway) /\ ~IsNull(Edges[i].source)
            THEN Edges[i].cost = Some(Val(Edges[i].way).len * C4_m(Val(Edges[i].highway)))
            ELSE IsNull(Edges[i].cost)

C4_Witness ==
    /\ script = "setup_routing" /\ Succeeded("UPDATE routing_edges SET cost")
    /\ \E i \in 1..Len(Edges) :
          ~IsNull(Edges[i].cost) /\ Val(Edges[i].cost) > 10 * Val(Edges[i].way).len
    /\ \E i \in 1..Len(Edges) : IsNull(Edges[i].highway) /\ ~IsNull(Edges[i].source)
    /\ \E i \in 1..Len(Edges) : ~IsNull(Edges[i].highway) /\ IsNull(Edges[i].source)

\* C5, the consequence as claimed: over all import_osm runs, starting with the
\* file absent, at most the first run past validation performs a download.
C5_OnlyOneRunDownloads == Len(fetchLog) <= 1

\* C5, amended: download_osm_data fetches, once, from OSM_URL into OSM_FILE,
\* exactly when the file does not exist, and never touches an existing file:
\* the file is what the one fetch that created it wrote.  Runs go on fetching
\* (one fetch each) as long as no fetch has created the file; after the fetch
\* that created it, completely or in part, no run fetches again.
C5_FileIsACache ==
    /\ fetches <= 1
    /\ \A i \in 1..Len(fetchLog) :
          /\ fetchLog[i].url = OSM_URL /\ fetchLog[i].into = OSM_FILE
          /\ i < Len(fetchLog) =>
                /\ fetchLog[i].outcome = "URLError"
                /\ fetchLog[i].run < fetchLog[i + 1].run
    /\ (file.state = "absent") <=>
          (\A i \in 1..Len(fetchLog) : fetchLog[i].outcome = "URLError")
    /\ file.state # "absent" => file = Last(fetchLog).wrote
    /\ (script = "import_osm" /\ Attempted("download_osm_data")) =>
          \/ fetches = 1 /\ Last(fetchLog).run = runs
          \/ fetches = 0 /\ file.state # "absent" /\ Succeeded("download_osm_data")
                /\ (fetchLog # <<>> => Last(fetchLog).run < runs)

C5_Witness ==
    /\ script = "import_osm" /\ Succeeded("download_osm_data") /\ fetches = 0
    /\ Len(fetchLog) = 2 /\ file.state = "complete" /\ file.data # <<>>

\* C6: CREATE EXTENSION IF NOT EXISTS, as enable_postgis (postgis, hstore) and
\* step 1 of setup_routing (pgrouting) issue it, raises no error of its own,
\* leaves the database as it is when the extension is already installed, and
\* otherwise adds exactly that extension: n runs install what one run installs.
ExtLabel(e) ==
    CASE e = "postgis" -> "CREATE EXTENSION IF NOT EXISTS postgis"
      [] e = "hstore" -> "CREATE EXTENSION IF NOT EXISTS hstore"
      [] OTHER -> "CREATE EXTENSION IF NOT EXISTS pgrouting"

C6_ExtensionCreationIdempotent ==
    [][ \A e \in ExtNames :
          (pc = "run" /\ Cur.label = ExtLabel(e) /\ faults' = faults) =>
              /\ Last(trace').step = ExtLabel(e)
              /\ Last(trace').err = ""
              /\ db'.ext = db.ext \cup {e}
              /\ e \in db.ext => db' = db ]_vars

C6_Witness ==
    /\ trace # <<>>
    /\ Last(trace) = [step |-> "CREATE EXTENSION IF NOT EXISTS postgis", err |-> ""]
    /\ "hstore" \in db.ext
    /\ runs > 1

\* C7: the rows test_routing gets from its Dijkstra query, in seq order, have a
\* non-decreasing agg_cost, for whichever start and end vertex it picked; no
\* cost in routing_edges is negative; so the "Total route cost", taken from
\* the last row, is the largest agg_cost of the rows.
C7_AggCostNonDecreasing ==
    (script = "test_routing" /\ Succeeded("SELECT FROM pgr_dijkstra LIMIT 20")) =>
        /\ \A i \in 1..Len(Edges) : IsNull(Edges[i].cost) \/ Val(Edges[i].cost) >= 0
        /\ \A i \in 1..Len(route) : route[i].seq = i
        /\ \A i \in 1..(Len(route) - 1) : route[i].agg_cost <= route[i + 1].agg_cost
        /\ route # <<>> =>
              /\ ~IsNull(total_cost)
              /\ \A i \in 1..Len(route) : route[i].agg_cost <= Val(total_cost)
              /\ \E i \in 1..Len(route) : route[i].agg_cost = Val(total_cost)
        /\ route = <<>> => IsNull(total_cost)

C7_Witness ==
    /\ script = "test_routing" /\ Succeeded("SELECT FROM pgr_dijkstra LIMIT 20")
    /\ Len(route) = 3
    /\ route[1].agg_cost = 0 /\ route[2].agg_cost > 0 /\ route[3].agg_cost > route[2].agg_cost
    /\ Len(Edges) = 3 /\ \A i \in 1..3 : ~IsNull(Edges[i].cost)

\* C8: no step of a setup_routing run, failed steps included, changes the
\* planet_osm_* tables, their keys or indexes, or the downloaded file; the run
\* installs no extension but pgrouting and writes only routing_edges,
\* routing_edges_vertices_pgr and their keys and indexes.
C8_OsmDataUntouched ==
    [][ script = "setup_routing" =>
          /\ \A t \in PlanetTables : db'.tables[t] = db.tables[t]
          /\ db'.pkeys \cap PlanetTables = db.pkeys \cap PlanetTables
          /\ {i \in db'.indexes : i.table \in PlanetTables}
                = {i \in db.indexes : i.table \in PlanetTables}
          /\ \A i \in db'.indexes : i.table \in PlanetTables \cup {"routing_edges"}
          /\ db'.pkeys \subseteq PlanetTables \cup {"routing_edges"}
          /\ db'.ext \ db.ext \subseteq {"pgrouting"}
          /\ db.ext \subseteq db'.ext
          /\ file' = file ]_vars

C8_Witness ==
    /\ script = "setup_routing" /\ pc = "exit" /\ exit = Some(0)
    /\ \E i \in 1..Len(trace) : trace[i].err # ""
    /\ Len(db.tables["planet_osm_line"].rows) > Len(Edges)
    /\ \E i \in 1..Len(Edges) : ~IsNull(Edges[i].reverse_cost)
    /\ Len(db.tables["routing_edges_vertices_pgr"].rows) > 1

\* C9: the external steps of a script, in program order
FixedSteps(s) ==
    LET steps == SelectSeq(Program(s), LAMBDA i : i.op # "print")
    IN <<"get_database_url">> \o [k \in 1..Len(steps) |-> steps[k].label]

IsPrefix(p, q) == Len(p) <= Len(q) /\ p = SubSeq(q, 1, Len(p))

Without(q, x) == SelectSeq(q, LAMBDA y : y # x)

\* C9, as claimed: the steps of every run are a prefix of the one fixed step
\* sequence of its script.
C9_EveryRunIsAPrefix ==
    script \in Scripts => IsPrefix(Steps, FixedSteps(script))

\* C9, amended: no step is attempted twice in a run and the steps attempted
\* follow the program order; a run of import_osm or setup_routing is a prefix
\* of the fixed sequence of its script; a run of test_routing is one too,
\* except that it leaves out the second Dijkstra query when the long-route
\* query found no pair of vertices.
C9_FixedOrderNoRetry ==
    script \in Scripts =>
        /\ \A i \in 1..Len(Steps), j \in 1..Len(Steps) : i < j => Steps[i] # Steps[j]
        /\ \/ IsPrefix(Steps, FixedSteps(script))
           \/ /\ script = "test_routing"
              /\ IsNull(sel.long)
              /\ Succeeded("SELECT start_id, end_id ORDER BY random() LIMIT 1")
              /\ IsPrefix(Steps, Without(FixedSteps(script),
                                         "SELECT COUNT(*), SUM(cost) FROM pgr_dijkstra"))
        /\ \A i \in 1..(Len(trace) - 1) : trace[i].err # "" =>
              Program(script)[CHOOSE k \in 1..Len(Program(script)) :
                                 Program(script)[k].label = trace[i].step].op = "execute_sql"

C9_Witness ==
    /\ script = "setup_routing" /\ pc = "exit" /\ exit = Some(0)
    /\ Steps = FixedSteps("setup_routing")
    /\ Failed("ALTER TABLE routing_edges ADD PRIMARY KEY (edge_id)")

\* C10: from the point where a setup_routing run has recreated routing_edges,
\* every row has reverse_cost NULL or equal to its (non-NULL) cost; and once
\* the reverse-cost step has succeeded, every row with a cost has
\* reverse_cost = cost.
C10_ReverseCostMirrorsCost ==
    script = "setup_routing" =>
        /\ Succeeded("CREATE TABLE routing_edges AS") =>
              \A i \in 1..Len(Edges) :
                  \/ IsNull(Edges[i].reverse_cost)
                  \/ ~IsNull(Edges[i].cost) /\ Edges[i].reverse_cost = Edges[i].cost
        /\ Succeeded("UPDATE routing_edges SET reverse_cost") =>
              \A i \in 1..Len(Edges) :
                  ~IsNull(Edges[i].cost) => Edges[i].reverse_cost = Edges[i].cost

C10_Witness ==
    /\ script = "setup_routing"
    /\ Succeeded("CREATE TABLE routing_edges AS")
    /\ Succeeded("UPDATE routing_edges SET reverse_cost")
    /\ \E i \in 1..Len(Edges) :
          ~IsNull(Edges[i].reverse_cost) /\ Val(Edges[i].cost) > 10 * Val(Edges[i].way).len
    /\ \E i \in 1..Len(Edges) : IsNull(Edges[i].cost) /\ IsNull(Edges[i].reverse_cost)
====
